---- MODULE Spec2Model ----
(***************************************************************************)
(* A state-machine model of main.py: the synthetic document generator.     *)
(*                                                                         *)
(* main() partitions the unit indices into batches, runs each batch on a   *)
(* process pool, accumulates the per-unit results, writes progress         *)
(* checkpoints and a final report.  generate_document() is the body of one *)
(* pool task.  generate_paragraphs() is the text source.                   *)
(*                                                                         *)
(* The module-level configuration (NUM_DOCUMENTS, DOCUMENT_TYPES,          *)
(* DOCUMENT_TEMPLATES), the two literals of main() (the batch size and the *)
(* checkpoint interval) and os.cpu_count() are state constants chosen by   *)
(* Init, so that the properties cover a range of them.  Floats            *)
(* are exact fractions [num, den]; a division whose denominator is 0 is    *)
(* Python's ZeroDivisionError.                                             *)
(***************************************************************************)
EXTENDS Integers, Sequences, FiniteSets, TLC

\* ---------------------------------------------------------------- bounds
MaxDocs       == 2   \* NUM_DOCUMENTS ranges over 0..MaxDocs in Spec
MaxSchedDocs  == 4   \* NUM_DOCUMENTS ranges over 0..MaxSchedDocs in SpecSched
MaxBatchSize  == 2   \* batch_size ranges over 1..MaxBatchSize
MaxEvery      == 2   \* the checkpoint interval ranges over 1..MaxEvery
MaxWorkers    == 2   \* os.cpu_count() is at most MaxWorkers
MaxElapsed    == 2   \* |end_time - start_time| is at most MaxElapsed ticks
MaxParagraphs == 4   \* num_paragraphs is at most MaxParagraphs
MaxNegative   == 1   \* both arguments are at least -MaxNegative
MaxFallback   == 3   \* the shortened fallback lists have 1..MaxFallback entries
MaxSentences  == 2   \* sentences_per_paragraph is at most MaxSentences
MaxPool       == 2   \* sentences loaded from the corpus: 0..MaxPool

\* The descriptions str(e) of the errors a synthesizer can raise.
ErrorMessages == {"disk full", "invalid path"}

VARIABLES
    \* configuration and environment, fixed during a run
    NUM_DOCUMENTS,       \* line 25
    DOCUMENT_TYPES,      \* lines 26-31: type -> weight
    DOCUMENT_TEMPLATES,  \* lines 34-40: template -> weight
    batch_size,          \* line 361 (10000 in the source)
    checkpoint_every,    \* line 382 (10 in the source)
    max_workers,         \* line 372: os.cpu_count()
    \* main()
    pc,           \* "loop", "submit", "pool", "checkpoint", "finalize", "summary",
                  \* "done", or "aborted" when an exception left main()
    batch,        \* the loop variable of line 366
    results,      \* line 364: the accumulated results
    total_time,   \* line 394
    abort_cause,  \* the exception that left main(), or "none"
    \* the process pool of the current batch (lines 372-377)
    ustate,       \* per unit: "idle", "queued", "running", "done", "fault"
    future,       \* per unit: <<result>> once generate_document returned
    synth,        \* per unit: <<outcome>> of the synthesizer call
    dispatched,   \* per unit: how many times it was submitted to the pool
    \* the output directory
    checkpoints,  \* b -> content of generation_report_{b}.json
    ckpt_failed,  \* <<b, file left>> of the checkpoint writes that raised:
                  \* the file is "absent", "empty" or "partial"
    final_report, \* <<content>> of generation_report_final.json
    report_file,  \* "absent", "empty" (opened, nothing dumped), "partial"
                  \* (cut-off JSON text), "written"
    \* generate_paragraphs()
    gp_phase,                 \* "idle", "call", "loop", "except",
                              \* "returned", "raised"
    num_paragraphs,           \* argument
    sentences_per_paragraph,  \* argument
    corpus,                   \* "available" or "unavailable" (lines 51-61)
    pool_size,                \* len(all_text)
    fallback_text,            \* lines 91-107: the entries 1..n of the list
    paragraphs,               \* the returned list
    used_fallback             \* the except branch of line 88 ran

cfgVars  == <<NUM_DOCUMENTS, DOCUMENT_TYPES, DOCUMENT_TEMPLATES,
              batch_size, checkpoint_every, max_workers>>
mainVars == <<pc, batch, results, total_time, abort_cause>>
poolVars == <<ustate, future, synth, dispatched>>
fileVars == <<checkpoints, ckpt_failed, final_report, report_file>>
textVars == <<gp_phase, num_paragraphs, sentences_per_paragraph, corpus,
              pool_size, fallback_text, paragraphs, used_fallback>>
vars     == <<cfgVars, mainVars, poolVars, fileVars, textVars>>

\* ------------------------------------------------------- configuration
\* Weights are in hundredths.
DefaultDocumentTypes ==
    [docx |-> 40, pdf |-> 30, xlsx |-> 20, txt |-> 10]

DefaultDocumentTemplates ==
    [report |-> 30, letter |-> 20, memo |-> 15, invoice |-> 15,
     data_analysis |-> 20]

\* A configuration with one type and one template.
SingleDocumentTypes     == [docx |-> 100]
SingleDocumentTemplates == [letter |-> 100]

\* random.choices(list(table.keys()), weights=list(table.values()), k=1)[0]:
\* the categories it can return.
Choices(table) == {c \in DOMAIN table : table[c] > 0}

\* ------------------------------------------------------ generate_document
\* What the dispatched create_*_document call does in its environment:
\* it returns, it raises an Exception with a description, or the task
\* ends without generate_document returning (the worker process dies, or
\* a BaseException that `except Exception` does not catch is raised).
SynthOutcomes ==
    {[kind |-> "ok", msg |-> ""]}
        \cup {[kind |-> "error", msg |-> m] : m \in ErrorMessages}
        \cup {[kind |-> "fault", msg |-> ""]}

\* os.path.join(OUTPUT_DIR, f"doc_{doc_index:07d}_{template_type}_{rand_id}.{doc_type}")
\* without the random suffix.
Filename(doc_index, doc_type, template_type) ==
    <<"synthetic_docs", doc_index, template_type, doc_type>>

\* The if/elif chain of lines 339-346: a type outside the four creates
\* nothing and falls through to the success return.
CreateDocument(doc_type, io) ==
    IF doc_type \in {"docx", "xlsx", "pdf", "txt"}
    THEN io
    ELSE [kind |-> "ok", msg |-> ""]

\* generate_document without its try/except: an error of the synthesizer
\* leaves the call.
generate_document_uncaught(doc_index, doc_type, template_type, io) ==
    LET out == CreateDocument(doc_type, io) IN
    IF out.kind = "ok"
    THEN <<[index |-> doc_index,
            filename |-> Filename(doc_index, doc_type, template_type),
            type |-> doc_type, template |-> template_type, error |-> "",
            status |-> "success"]>>
    ELSE <<>>

\* The value generate_document returns, as a sequence of length 1, or <<>>
\* when the call does not return.  A success carries error = "" and a
\* failure carries type = template = "" and filename = <<>> in place of
\* the absent keys.
generate_document(doc_index, doc_type, template_type, io) ==
    LET out == CreateDocument(doc_type, io) IN
    CASE out.kind = "ok" ->
           <<[index |-> doc_index,
              filename |-> Filename(doc_index, doc_type, template_type),
              type |-> doc_type, template |-> template_type, error |-> "",
              status |-> "success"]>>
      [] out.kind = "error" ->
           <<[index |-> doc_index, filename |-> <<>>, type |-> "",
              template |-> "", error |-> out.msg, status |-> "failed"]>>
      [] OTHER -> <<>>

\* ------------------------------------------------------------------ main
doc_indices == [i \in 1..NUM_DOCUMENTS |-> i]

total_batches == (NUM_DOCUMENTS + batch_size - 1) \div batch_size

Min(a, b) == IF a <= b THEN a ELSE b

\* batch_start off by one: the first index of every batch is skipped.
batch_start_skip(b) == b * batch_size + 1

batch_start(b) == b * batch_size
batch_end(b)   == Min((b + 1) * batch_size, NUM_DOCUMENTS)

\* doc_indices[batch_start:batch_end]
batch_indices(b) ==
    SubSeq(doc_indices, batch_start(b) + 1, batch_end(b))

Range(s) == {s[i] : i \in 1..Len(s)}

RECURSIVE CountStatus(_, _)
\* sum(1 for r in rs if r["status"] == st)
CountStatus(rs, st) ==
    IF rs = <<>> THEN 0
    ELSE (IF Head(rs).status = st THEN 1 ELSE 0) + CountStatus(Tail(rs), st)

RECURSIVE CountSuccessWith(_, _, _)
\* sum(1 for r in rs if r.get("status") == "success" and r.get(key) == c)
CountSuccessWith(rs, key, c) ==
    IF rs = <<>> THEN 0
    ELSE (IF Head(rs).status = "success" /\ Head(rs)[key] = c THEN 1 ELSE 0)
         + CountSuccessWith(Tail(rs), key, c)

InFlight == {i \in 1..NUM_DOCUMENTS : ustate[i] \in {"queued", "running"}}
Running  == {i \in 1..NUM_DOCUMENTS : ustate[i] = "running"}

\* for batch in range(total_batches): the loop test; the slice of line 369
\* is taken and the pool of line 372 is created.
LoopNext ==
    /\ pc = "loop"
    /\ batch < total_batches
    /\ pc' = "submit"
    /\ UNCHANGED <<cfgVars, batch, results, total_time, abort_cause,
                   poolVars, fileVars, textVars>>

\* The units of the batch executor.map has not submitted yet.
Unsubmitted(b) ==
    {i \in Range(batch_indices(b)) : dispatched[i] = 0}

\* executor.map submits the units of the batch one by one, in the order of
\* the slice, while the workers already take the submitted ones; after
\* the last one list() starts to wait for the results.
SubmitUnit ==
    /\ pc = "submit"
    /\ \E i \in Unsubmitted(batch) :
          /\ \A j \in Unsubmitted(batch) : i <= j
          /\ ustate' = [ustate EXCEPT ![i] = "queued"]
          /\ dispatched' = [dispatched EXCEPT ![i] = @ + 1]
          /\ pc' = IF Unsubmitted(batch) = {i} THEN "pool" ELSE "submit"
    /\ UNCHANGED <<cfgVars, batch, results, total_time, abort_cause,
                   future, synth, fileVars, textVars>>

LoopExit ==
    /\ pc = "loop"
    /\ batch >= total_batches
    /\ pc' = "finalize"
    /\ UNCHANGED <<cfgVars, batch, results, total_time, abort_cause,
                   poolVars, fileVars, textVars>>

\* A free worker of the pool takes a queued unit.
StartUnit ==
    /\ pc \in {"submit", "pool"}
    /\ Cardinality(Running) < max_workers
    /\ \E i \in 1..NUM_DOCUMENTS :
          /\ ustate[i] = "queued"
          /\ ustate' = [ustate EXCEPT ![i] = "running"]
    /\ UNCHANGED <<cfgVars, mainVars, future, synth, dispatched,
                   fileVars, textVars>>

\* The worker runs generate_document(i) to its end.
FinishUnit ==
    /\ pc \in {"submit", "pool"}
    /\ \E i \in 1..NUM_DOCUMENTS :
          /\ ustate[i] = "running"
          /\ \E doc_type \in Choices(DOCUMENT_TYPES),
                template_type \in Choices(DOCUMENT_TEMPLATES),
                io \in SynthOutcomes :
                LET r == generate_document(i, doc_type, template_type, io) IN
                /\ future' = [future EXCEPT ![i] = r]
                /\ synth' = [synth EXCEPT ![i] = <<io>>]
                /\ ustate' = [ustate EXCEPT ![i] =
                                 IF r = <<>> THEN "fault" ELSE "done"]
    /\ UNCHANGED <<cfgVars, mainVars, dispatched, fileVars, textVars>>

\* A collection that waits for one result of the batch only.
BatchReturnedAny(b) ==
    \E i \in Range(batch_indices(b)) : ustate[i] = "done"

\* list(executor.map(...)) has every result of the batch.
BatchReturned(b) ==
    \A i \in Range(batch_indices(b)) : ustate[i] = "done"

RECURSIVE Gather(_)
\* The results of the returned units of a slice, in submission order.
Gather(idx) ==
    IF idx = <<>> THEN <<>>
    ELSE (IF ustate[Head(idx)] = "done" THEN future[Head(idx)] ELSE <<>>)
         \o Gather(Tail(idx))

\* batch_results = list(...); results.extend(batch_results)
CollectBatch ==
    /\ pc = "pool"
    /\ BatchReturned(batch)
    /\ results' = results \o Gather(batch_indices(batch))
    /\ pc' = "checkpoint"
    /\ UNCHANGED <<cfgVars, batch, total_time, abort_cause, poolVars,
                   fileVars, textVars>>

\* A task that did not return ends main(): the result iterator of
\* executor.map reaches it in submission order and raises its exception,
\* or, the pool being broken by a dead worker, the next submit() raises.
AbortBatch ==
    /\ \/ /\ pc = "pool"
          /\ \E i \in Range(batch_indices(batch)) :
                /\ ustate[i] = "fault"
                /\ \A j \in Range(batch_indices(batch)) :
                      j < i => ustate[j] = "done"
       \/ /\ pc = "submit"
          /\ \E i \in Range(batch_indices(batch)) : ustate[i] = "fault"
    /\ pc' = "aborted"
    /\ abort_cause' = "worker_fault"
    /\ UNCHANGED <<cfgVars, batch, results, total_time, poolVars,
                   fileVars, textVars>>

\* The checkpoint test without its last-batch disjunct.
ShouldCheckpointNoFinal(b) == (b + 1) % checkpoint_every = 0

\* if (batch + 1) % 10 == 0 or batch == total_batches - 1
ShouldCheckpoint(b) ==
    (b + 1) % checkpoint_every = 0 \/ b = total_batches - 1

\* A checkpoint whose failed count is computed as in the final report.
ProgressOfTotal(b, rs) ==
    [completed_batches   |-> b + 1,
     total_batches       |-> total_batches,
     documents_generated |-> Len(rs),
     success_count       |-> CountStatus(rs, "success"),
     failed_count        |-> NUM_DOCUMENTS - CountStatus(rs, "success")]

\* The dictionary of lines 384-390.
Progress(b, rs) ==
    [completed_batches   |-> b + 1,
     total_batches       |-> total_batches,
     documents_generated |-> Len(rs),
     success_count       |-> CountStatus(rs, "success"),
     failed_count        |-> CountStatus(rs, "failed")]

\* The file generation_report_{batch+1}.json is written.
SaveProgress ==
    /\ pc = "checkpoint"
    /\ ShouldCheckpoint(batch)
    /\ checkpoints' =
          [b \in DOMAIN checkpoints \cup {batch + 1} |->
              IF b = batch + 1 THEN Progress(batch, results)
              ELSE checkpoints[b]]
    /\ batch' = batch + 1
    /\ pc' = "loop"
    /\ UNCHANGED <<cfgVars, results, total_time, abort_cause, poolVars,
                   ckpt_failed, final_report, report_file, textVars>>

\* Writing the checkpoint raises OSError and nothing catches it: open()
\* fails and there is no file, or open() has created the file and
\* json.dump or the closing flush fails, which leaves it empty or with a
\* cut-off beginning of the JSON text.
SaveProgressFails ==
    /\ pc = "checkpoint"
    /\ ShouldCheckpoint(batch)
    /\ \E left \in {"absent", "empty", "partial"} :
          ckpt_failed' = ckpt_failed \cup {<<batch + 1, left>>}
    /\ pc' = "aborted"
    /\ abort_cause' = "checkpoint_write"
    /\ UNCHANGED <<cfgVars, batch, results, total_time, poolVars,
                   checkpoints, final_report, report_file, textVars>>

SkipProgress ==
    /\ pc = "checkpoint"
    /\ ~ShouldCheckpoint(batch)
    /\ batch' = batch + 1
    /\ pc' = "loop"
    /\ UNCHANGED <<cfgVars, results, total_time, abort_cause, poolVars,
                   fileVars, textVars>>

success_count == CountStatus(results, "success")

\* {c: sum(1 for r in results if success and r.get(key) == c) / success_count
\*  for c in table}
Distribution(table, key, rs) ==
    [c \in DOMAIN table |->
        [num |-> CountSuccessWith(rs, key, c),
         den |-> CountStatus(rs, "success")]]

\* "documents_per_second": NUM_DOCUMENTS / total_time
Throughput(rs, t) == [num |-> NUM_DOCUMENTS, den |-> t]

\* The dictionary of lines 399-413.
FinalReport(rs, t) ==
    [total_documents     |-> NUM_DOCUMENTS,
     success_count       |-> CountStatus(rs, "success"),
     failed_count        |-> NUM_DOCUMENTS - CountStatus(rs, "success"),
     time_taken_seconds  |-> t,
     documents_per_second |-> Throughput(rs, t),
     document_type_distribution |->
         Distribution(DOCUMENT_TYPES, "type", rs),
     template_type_distribution |->
         Distribution(DOCUMENT_TEMPLATES, "template", rs)]

\* A division of the dictionary has denominator 0.
ReportDividesByZero(rs, t) ==
    \/ t = 0
    \/ CountStatus(rs, "success") = 0

\* Lines 393-413: the clock is read (time.time() is not monotonic: the
\* difference can be negative), the report file is opened and so
\* truncated, the dictionary is built, and it is dumped; a dump or flush
\* that fails leaves the file empty or with part of the JSON text.
Finalize ==
    /\ pc = "finalize"
    /\ \E t \in (0 - MaxElapsed)..MaxElapsed,
          io \in {"ok", "open_fails", "dump_fails_empty",
                  "dump_fails_partial"} :
          /\ total_time' = t
          /\ IF io = "open_fails"
             THEN /\ pc' = "aborted"
                  /\ abort_cause' = "report_write"
                  /\ UNCHANGED <<final_report, report_file>>
             ELSE IF ReportDividesByZero(results, t)
             THEN /\ pc' = "aborted"
                  /\ abort_cause' = "ZeroDivisionError"
                  /\ report_file' = "empty"
                  /\ UNCHANGED final_report
             ELSE IF io \in {"dump_fails_empty", "dump_fails_partial"}
             THEN /\ pc' = "aborted"
                  /\ abort_cause' = "report_write"
                  /\ report_file' = IF io = "dump_fails_empty"
                                    THEN "empty" ELSE "partial"
                  /\ UNCHANGED final_report
             ELSE /\ pc' = "summary"
                  /\ final_report' = <<FinalReport(results, t)>>
                  /\ report_file' = "written"
                  /\ UNCHANGED abort_cause
    /\ UNCHANGED <<cfgVars, batch, results, poolVars, checkpoints,
                   ckpt_failed, textVars>>

\* Lines 415-418: success_count / total_time is printed.
PrintSummary ==
    /\ pc = "summary"
    /\ IF total_time = 0
       THEN pc' = "aborted" /\ abort_cause' = "ZeroDivisionError"
       ELSE pc' = "done" /\ UNCHANGED abort_cause
    /\ UNCHANGED <<cfgVars, batch, results, total_time, poolVars,
                   fileVars, textVars>>

\* ---------------------------------------------------- generate_paragraphs
\* len(fallback_text)
FallbackSize == 15

\* Every sequence of m draws random.sample can make on a population of
\* n: draw i is any value below n - i + 1.
AllDraws(n, m) ==
    {g \in [1..m -> 0..(n - 1)] : \A i \in 1..m : g[i] <= n - i}

RECURSIVE SampleFrom(_, _)
\* random.sample on a population of at most 21 elements: the element at
\* the drawn position j is taken and the last remaining element is moved
\* to position j (result[i] = pool[j]; pool[j] = pool[n - i - 1]).
SampleFrom(pool, draws) ==
    IF draws = <<>> THEN <<>>
    ELSE LET j    == Head(draws) + 1
             last == Len(pool)
             rest == [q \in 1..(last - 1) |->
                         IF q = j THEN pool[last] ELSE pool[q]]
         IN  <<pool[j]>> \o SampleFrom(rest, Tail(draws))

\* A list of n elements, as their positions.
Positions(n) == [q \in 1..n |-> q]

\* random.sample(population, len(draws)) for a population of n elements,
\* as the positions 1..n it returns.
Sample(n, draws) == SampleFrom(Positions(n), draws)

\* A string is the sequence of the sentences joined into it: '' is <<>>.
\* Sentence i of the corpus is <<"corpus", i>>, entry i of fallback_text is
\* <<"fallback", i>>.
Join(src, ids) == [j \in 1..Len(ids) |-> <<src, ids[j]>>]

\* The try block raises before its loop: the corpus cannot be found or
\* downloaded, or no sentence was loaded from any book (line 79).
PrimaryRaises(c, pool) == c = "unavailable" \/ pool = 0

\* Lines 49-79: the corpus is looked up and the sentences are loaded.
LoadCorpus ==
    /\ gp_phase = "call"
    /\ gp_phase' = IF PrimaryRaises(corpus, pool_size)
                   THEN "except" ELSE "loop"
    /\ UNCHANGED <<cfgVars, mainVars, poolVars, fileVars, num_paragraphs,
                   sentences_per_paragraph, corpus, pool_size,
                   fallback_text, paragraphs, used_fallback>>

\* Lines 82-85: one iteration of `for _ in range(num_paragraphs)`.
\* random.sample raises ValueError for a negative count; line 88 catches
\* it and the except branch runs.
AppendParagraph ==
    /\ gp_phase = "loop"
    /\ Len(paragraphs) < num_paragraphs
    /\ IF Min(sentences_per_paragraph, pool_size) < 0
       THEN /\ gp_phase' = "except"
            /\ UNCHANGED paragraphs
       ELSE /\ \E draws \in AllDraws(pool_size,
                                     Min(sentences_per_paragraph, pool_size)) :
                  paragraphs' =
                      Append(paragraphs,
                             Join("corpus", Sample(pool_size, draws)))
            /\ UNCHANGED gp_phase
    /\ UNCHANGED <<cfgVars, mainVars, poolVars, fileVars,
                   num_paragraphs, sentences_per_paragraph, corpus,
                   pool_size, fallback_text, used_fallback>>

\* Line 87: return paragraphs.
ReturnParagraphs ==
    /\ gp_phase = "loop"
    /\ Len(paragraphs) >= num_paragraphs
    /\ gp_phase' = "returned"
    /\ UNCHANGED <<cfgVars, mainVars, poolVars, fileVars, num_paragraphs,
                   sentences_per_paragraph, corpus, pool_size,
                   fallback_text, paragraphs, used_fallback>>

\* The list line 108 returns for the draws of its random.sample.
FallbackParagraphs(text, draws) ==
    LET picked == SampleFrom(text, draws)
    IN  [p \in 1..Len(picked) |-> Join("fallback", <<picked[p]>>)]

\* Lines 88-108: the except branch.  Every draw of the random.sample of
\* line 108 takes every value.  random.sample raises ValueError for a
\* negative count, and the exception leaves generate_paragraphs.
ReturnFallback ==
    /\ gp_phase = "except"
    /\ used_fallback' = TRUE
    /\ IF Min(num_paragraphs, Len(fallback_text)) < 0
       THEN /\ gp_phase' = "raised"
            /\ UNCHANGED paragraphs
       ELSE /\ \E draws \in AllDraws(Len(fallback_text),
                                     Min(num_paragraphs, Len(fallback_text))) :
                  paragraphs' = FallbackParagraphs(fallback_text, draws)
            /\ gp_phase' = "returned"
    /\ UNCHANGED <<cfgVars, mainVars, poolVars, fileVars, num_paragraphs,
                   sentences_per_paragraph, corpus, pool_size, fallback_text>>

\* --------------------------------------------------------- specifications
TextIdle ==
    /\ gp_phase = "idle"
    /\ num_paragraphs = 0
    /\ sentences_per_paragraph = 0
    /\ corpus = "available"
    /\ pool_size = 0
    /\ fallback_text = Positions(FallbackSize)
    /\ paragraphs = <<>>
    /\ used_fallback = FALSE

MainStart(maxDocs, workers, types, templates) ==
    /\ NUM_DOCUMENTS \in 0..maxDocs
    /\ DOCUMENT_TYPES = types
    /\ DOCUMENT_TEMPLATES = templates
    /\ batch_size \in 1..MaxBatchSize
    /\ checkpoint_every \in 1..MaxEvery
    /\ max_workers \in workers
    /\ pc = "loop"
    /\ batch = 0
    /\ results = <<>>
    /\ total_time = 0
    /\ abort_cause = "none"
    /\ ustate = [i \in 1..NUM_DOCUMENTS |-> "idle"]
    /\ future = [i \in 1..NUM_DOCUMENTS |-> <<>>]
    /\ synth = [i \in 1..NUM_DOCUMENTS |-> <<>>]
    /\ dispatched = [i \in 1..NUM_DOCUMENTS |-> 0]
    /\ checkpoints = <<>>
    /\ ckpt_failed = {}
    /\ final_report = <<>>
    /\ report_file = "absent"

\* The type and template tables of the source file, for small unit counts
\* and a pool of MaxWorkers processes.
Init ==
    /\ MainStart(MaxDocs, {MaxWorkers}, DefaultDocumentTypes,
                 DefaultDocumentTemplates)
    /\ TextIdle

\* One type and one template, for larger unit counts and every pool size.
InitSched ==
    /\ MainStart(MaxSchedDocs, 1..MaxWorkers, SingleDocumentTypes,
                 SingleDocumentTemplates)
    /\ TextIdle

\* A call of generate_paragraphs on its own.  fallback_text is the list
\* of FallbackSize entries of the source file, or the same list cut down
\* to 1..MaxFallback entries so that counts above its length occur.
InitText ==
    /\ MainStart(0, {1}, DefaultDocumentTypes, DefaultDocumentTemplates)
    /\ batch_size = 1
    /\ checkpoint_every = 1
    /\ gp_phase = "call"
    /\ corpus \in {"available", "unavailable"}
    /\ pool_size \in (IF corpus = "available" THEN 0..MaxPool ELSE {0})
    /\ num_paragraphs \in (0 - MaxNegative)..MaxParagraphs
    /\ sentences_per_paragraph \in (0 - MaxNegative)..MaxSentences
    /\ fallback_text \in
          {Positions(n) : n \in (1..MaxFallback) \cup {FallbackSize}}
    /\ paragraphs = <<>>
    /\ used_fallback = FALSE

Next ==
    \/ LoopNext
    \/ SubmitUnit
    \/ LoopExit
    \/ StartUnit
    \/ FinishUnit
    \/ CollectBatch
    \/ AbortBatch
    \/ SaveProgress
    \/ SaveProgressFails
    \/ SkipProgress
    \/ Finalize
    \/ PrintSummary

NextText ==
    \/ LoadCorpus
    \/ AppendParagraph
    \/ ReturnParagraphs
    \/ ReturnFallback

Spec      == Init /\ [][Next]_vars
SpecSched == InitSched /\ [][Next]_vars
SpecText  == InitText /\ [][NextText]_vars

\* ------------------------------------------------------------ properties
\* main() has left the batch loop by its normal exit.
LoopCompleted ==
    \/ pc \in {"finalize", "summary", "done"}
    \/ pc = "aborted" /\ abort_cause \in {"report_write", "ZeroDivisionError"}

\* The batch a unit index belongs to.
BatchOf(i) == (i - 1) \div batch_size

Collected(i) == \E p \in 1..Len(results) : results[p].index = i

CeilDiv(n, s) == IF n % s = 0 THEN n \div s ELSE n \div s + 1

\* C1: in every progress checkpoint written, success_count + failed_count
\* equals documents_generated, which is the number of units generated when
\* it was written and at most NUM_DOCUMENTS; in the final report
\* success_count + failed_count equals total_documents and both are >= 0.
C1_CountsAddUp ==
    /\ \A b \in DOMAIN checkpoints :
          LET c == checkpoints[b] IN
          /\ c.success_count + c.failed_count = c.documents_generated
          /\ c.documents_generated = batch_end(b - 1)
          /\ c.documents_generated <= NUM_DOCUMENTS
          /\ c.success_count >= 0
          /\ c.failed_count >= 0
    /\ final_report # <<>> =>
          LET r == final_report[1] IN
          /\ r.success_count + r.failed_count = r.total_documents
          /\ r.total_documents = NUM_DOCUMENTS
          /\ r.success_count >= 0
          /\ r.failed_count >= 0

\* A final report and an intermediate checkpoint, both over failed units.
C1_Witness ==
    /\ final_report # <<>>
    /\ final_report[1].failed_count > 0
    /\ \E b \in DOMAIN checkpoints :
          /\ b < total_batches
          /\ checkpoints[b].failed_count > 0

\* C2: a unit whose task ends without a return value does not abort the
\* run: the run goes on and the unit is collected as one failed result.
C2_FaultIsolated ==
    \A i \in 1..NUM_DOCUMENTS :
        ustate[i] = "fault" =>
            /\ abort_cause # "worker_fault"
            /\ pc \notin {"submit", "pool"} =>
                  \E p \in 1..Len(results) :
                      /\ results[p].index = i
                      /\ results[p].status = "failed"

\* C3: whenever the synthesizer returned or raised an error,
\* generate_document(i) returned exactly one result, with index i and
\* status success or failed; an error gives status failed with the error's
\* description; a task ends without a result only when the synthesizer
\* did neither.
C3_OneResultPerUnit ==
    \A i \in 1..NUM_DOCUMENTS :
        synth[i] # <<>> =>
            LET io == synth[i][1] IN
            /\ io.kind \in {"ok", "error"} =>
                  /\ ustate[i] = "done"
                  /\ Len(future[i]) = 1
                  /\ future[i][1].index = i
                  /\ future[i][1].status \in {"success", "failed"}
                  /\ future[i][1].status = "success" <=> io.kind = "ok"
            /\ io.kind = "error" =>
                  /\ future[i][1].status = "failed"
                  /\ future[i][1].error = io.msg
            /\ ustate[i] = "fault" => io.kind = "fault"

\* One unit failed with the error's description, another succeeded.
C3_Witness ==
    \E i, j \in 1..NUM_DOCUMENTS :
        /\ synth[i] # <<>> /\ synth[i][1].kind = "error"
        /\ ustate[i] = "done" /\ future[i][1].error = synth[i][1].msg
        /\ ustate[j] = "done" /\ future[j][1].status = "success"

\* C4: every unit submitted or running belongs to the current batch, and
\* a unit has left the idle state only when every unit of every earlier
\* batch has its result in the accumulated results, which hold the
\* indices in increasing order.
C4_NoPipelining ==
    /\ InFlight \subseteq Range(batch_indices(batch))
    /\ \A i, j \in 1..NUM_DOCUMENTS :
          (ustate[i] # "idle" /\ BatchOf(j) < BatchOf(i)) => Collected(j)
    /\ \A p \in 1..Len(results) : results[p].index = p

\* In the second batch a later unit has returned while an earlier one is
\* still running.
C4_Witness ==
    /\ batch = 1
    /\ Len(results) = batch_size
    /\ \E i, j \in Range(batch_indices(batch)) :
          i < j /\ ustate[i] = "running" /\ ustate[j] = "done"

\* C5: when the batch loop has ended, a checkpoint exists for batch b
\* exactly when b is a multiple of the interval or b is the last batch,
\* and their number is floor(B/K), plus one if B is not a multiple of K.
C5_CheckpointCount ==
    LoopCompleted =>
        LET B == total_batches
            K == checkpoint_every
        IN  /\ DOMAIN checkpoints = {b \in 1..B : b % K = 0 \/ b = B}
            /\ Cardinality(DOMAIN checkpoints) =
                   (B \div K) + (IF B % K = 0 THEN 0 ELSE 1)
            /\ \A b \in DOMAIN checkpoints :
                   checkpoints[b].completed_batches = b

\* A completed run of 3 batches with interval 2: checkpoints 2 and 3.
C5_Witness ==
    /\ pc = "done"
    /\ total_batches = 3
    /\ checkpoint_every = 2
    /\ DOMAIN checkpoints = {2, 3}

\* C6: when finalization runs with no successful unit (and a clock
\* difference other than 0), the final report is written and every type and
\* template fraction in it is 0.
C6_ZeroSuccessReport ==
    ( /\ pc \in {"summary", "done"} \/ abort_cause = "ZeroDivisionError"
      /\ success_count = 0
      /\ total_time # 0 )
    =>
    /\ report_file = "written"
    /\ final_report # <<>>
    /\ \A c \in DOMAIN DOCUMENT_TYPES :
          final_report[1].document_type_distribution[c].num = 0
    /\ \A c \in DOMAIN DOCUMENT_TEMPLATES :
          final_report[1].template_type_distribution[c].num = 0

\* C7: total_batches is ceil(T/S); batch b holds the consecutive indices
\* b*S+1, b*S+2, ...: S of them, or between 1 and S in the last batch; no
\* index is submitted twice, the indices are submitted in increasing
\* order, batch by batch, and when the loop has ended every index was
\* submitted exactly once.
C7_Partition ==
    /\ total_batches = CeilDiv(NUM_DOCUMENTS, batch_size)
    /\ \A b \in 0..(total_batches - 1) :
          LET idx == batch_indices(b) IN
          /\ b < total_batches - 1 => Len(idx) = batch_size
          /\ Len(idx) >= 1 /\ Len(idx) <= batch_size
          /\ \A p \in 1..Len(idx) : idx[p] = b * batch_size + p
    /\ \A i \in 1..NUM_DOCUMENTS : dispatched[i] <= 1
    /\ \A i \in 1..NUM_DOCUMENTS :
          /\ BatchOf(i) < batch => dispatched[i] = 1
          /\ BatchOf(i) > batch => dispatched[i] = 0
          /\ (BatchOf(i) = batch /\ pc = "loop") => dispatched[i] = 0
          /\ (BatchOf(i) = batch /\ pc \in {"pool", "checkpoint"})
                => dispatched[i] = 1
    /\ \A i, j \in 1..NUM_DOCUMENTS :
          (i < j /\ dispatched[j] = 1) => dispatched[i] = 1
    /\ LoopCompleted => \A i \in 1..NUM_DOCUMENTS : dispatched[i] = 1

\* A completed run of 3 units in batches of 2: the last batch is short.
C7_Witness ==
    /\ pc = "done"
    /\ NUM_DOCUMENTS = 3
    /\ batch_size = 2
    /\ Len(batch_indices(1)) = 1
    /\ \A i \in 1..NUM_DOCUMENTS : dispatched[i] = 1

\* C8: a failed write of a checkpoint that is not the last batch's does
\* not end the run.
C8_CheckpointFailureNonFatal ==
    \A f \in ckpt_failed : f[1] < total_batches => pc # "aborted"

C10_ThroughputOfSuccess ==
    final_report # <<>> =>
        LET r == final_report[1] IN
        r.documents_per_second.num * r.time_taken_seconds
            = r.success_count * r.documents_per_second.den

====
